---- MODULE Spec2Model ----
(***************************************************************************)
(* Model of AudioProcessing/plot_waveforms.py: one run of                  *)
(* analyze_and_plot_waveforms() is a straight-line pipeline                *)
(*   read_csv -> peak analysis -> sort -> report -> time axis ->           *)
(*   per-channel figure -> overlay figure -> plt.show()                    *)
(* Every statement (or loop iteration) of the function is one action.      *)
(*                                                                         *)
(* Amplitudes are fixed-point integers in units of 1e-5.  Values of the    *)
(* time axis are binary floating-point numbers <<m, k>> = m / 2^k with a   *)
(* mantissa of MantBits bits.                                              *)
(***************************************************************************)
EXTENDS Integers, Sequences, FiniteSets, TLC

VARIABLES
    file,            \* the file named by CSV_FILENAME
    SAMPLE_RATE,     \* module-level configuration (line 29)
    pc,              \* position of the run inside analyze_and_plot_waveforms
    outcome,         \* which branch of the try/except was taken
    df,              \* the loaded table
    num_channels,
    num_samples,
    peak_amplitudes, \* dict, as the sequence of its items in insertion order
    sorted_peaks,
    time_axis,
    idx,             \* loop counter of the loop the run is in
    stdout,          \* lines printed so far
    fig1,            \* per-channel figure
    fig2,            \* overlay figure
    shown,           \* plt.show() has been called
    runs,            \* number of the current run
    prev             \* what the previous run produced

vars == <<file, SAMPLE_RATE, pc, outcome, df, num_channels, num_samples,
          peak_amplitudes, sorted_peaks, time_axis, idx, stdout, fig1, fig2,
          shown, runs, prev>>

\* ---------------------------------------------------------------- bounds
MaxChannels == 3
MaxSamples == 2
MaxAxisSamples == 5
MantBits == 8
MaxRuns == 2

\* Sample values a capture file may hold (units of 1e-5): -0.9 and 0.5
Samples == {-90000, 50000}

\* Values SAMPLE_RATE is configured with (line 29 sets 48000).
SampleRates == {48000, 44100}

\* ------------------------------------------------------------- utilities
Range(s) == {s[i] : i \in 1..Len(s)}

Reverse(s) == [i \in 1..Len(s) |-> s[Len(s) + 1 - i]]

Pow2(n) == 2 ^ n

\* ------------------------------------------------------ channel names
Digits == <<"1", "2", "3", "4", "5">>

\* Header written by the capture program: Mic_1, Mic_2, ...
ChannelName(i) == <<"M", "i", "c", "_", Digits[i]>>

Header(n) == [i \in 1..n |-> ChannelName(i)]

\* str.replace(old, new) on a name held as a sequence of characters
StrReplace(name, old, new) ==
    [k \in 1..Len(name) |-> IF name[k] = old THEN new ELSE name[k]]

\* ------------------------------------------------------ floats
NaN == [nan |-> TRUE, v |-> 0]

Float(x) == [nan |-> FALSE, v |-> x]

\* IEEE comparison: every comparison with NaN is false
FloatLt(a, b) == ~a.nan /\ ~b.nan /\ a.v < b.v

FloatGe(a, b) == ~a.nan /\ ~b.nan /\ a.v >= b.v

FloatEq(a, b) == ~a.nan /\ ~b.nan /\ a.v = b.v

\* ------------------------------------------------------ input files
\* A CSV file: header row of n names, then m rows of n samples.
CsvFiles(maxN, maxM, vals) ==
    UNION {UNION {{[exists |-> TRUE, parses |-> TRUE,
                    header |-> Header(n), rows |-> r] :
                        r \in [1..m -> [1..n -> vals]]} :
                  m \in 0..maxM} :
           n \in 1..maxN}

MissingFile == [exists |-> FALSE, parses |-> FALSE, header |-> <<>>, rows |-> <<>>]

MalformedFile == [exists |-> TRUE, parses |-> FALSE, header |-> <<>>, rows |-> <<>>]

\* pd.read_csv on a parseable file: a table of named columns
ReadCsv(f) ==
    [columns |-> f.header,
     data |-> [c \in 1..Len(f.header) |->
                  [r \in 1..Len(f.rows) |-> f.rows[r][c]]]]

NoTable == [columns |-> <<>>, data |-> <<>>]

\* len(df): number of rows
DfLen(d) == IF Len(d.data) = 0 THEN 0 ELSE Len(d.data[1])

\* df[channel_name]
RECURSIVE ColumnIndex(_, _, _)
ColumnIndex(d, name, i) ==
    IF d.columns[i] = name THEN i ELSE ColumnIndex(d, name, i + 1)

Column(d, name) == d.data[ColumnIndex(d, name, 1)]

ReadOutcome_generic(f) ==
    IF ~f.exists \/ ~f.parses THEN "ReadError" ELSE "Ok"

\* try/except of lines 34-42: which handler a read of file f ends in
ReadOutcome(f) ==
    IF ~f.exists THEN "NotFound"
    ELSE IF ~f.parses THEN "ReadError"
    ELSE "Ok"

ReturnsEarly_fallthrough(o) == FALSE

\* the return statements of lines 39 and 42
ReturnsEarly(o) == o # "Ok"

\* ------------------------------------------------------ analysis
Abs(x) == IF x < 0 THEN -x ELSE x

\* Series.abs()
SeriesAbs(col) == [i \in 1..Len(col) |-> Abs(col[i])]

RECURSIVE MaxFrom(_, _, _)
MaxFrom(col, i, best) ==
    IF i > Len(col) THEN best
    ELSE MaxFrom(col, i + 1, IF col[i] > best THEN col[i] ELSE best)

\* Series.max(): NaN for a series without values
SeriesMax(col) == IF Len(col) = 0 THEN NaN ELSE Float(MaxFrom(col, 2, col[1]))

PeakOf_rate(d, name) ==
    LET p == SeriesMax(SeriesAbs(Column(d, name)))
    IN  IF p.nan THEN p ELSE Float((p.v * 100) \div (SAMPLE_RATE \div 100))

\* df[channel_name].abs().max()   (line 52)
PeakOf(d, name) == SeriesMax(SeriesAbs(Column(d, name)))

\* peak_amplitudes[key] = value on a dict held as its item sequence
DictSet(items, key, value) ==
    IF \E i \in 1..Len(items) : items[i].key = key
    THEN [i \in 1..Len(items) |->
             IF items[i].key = key THEN [key |-> key, value |-> value]
             ELSE items[i]]
    ELSE Append(items, [key |-> key, value |-> value])

\* insert x into the ascending sequence s after every element that is not
\* greater than x (binary insertion of list.sort keeps equal keys in order)
RECURSIVE InsertPos(_, _, _)
InsertPos(s, x, i) ==
    IF i > Len(s) THEN i
    ELSE IF FloatLt(x.value, s[i].value) THEN i
    ELSE InsertPos(s, x, i + 1)

InsertAt(s, x, p) ==
    [i \in 1..(Len(s) + 1) |->
        IF i < p THEN s[i] ELSE IF i = p THEN x ELSE s[i - 1]]

RECURSIVE SortAsc(_, _, _)
SortAsc(items, i, acc) ==
    IF i > Len(items) THEN acc
    ELSE SortAsc(items, i + 1, InsertAt(acc, items[i], InsertPos(acc, items[i], 1)))

\* sorted(items, key=value, reverse=True)   (line 55): the list is reversed,
\* sorted ascending and stable, and reversed again
Sorted(items) == Reverse(SortAsc(Reverse(items), 1, <<>>))

\* ------------------------------------------------------ report
\* f"{peak:.4f}": the value rounded to 4 decimals, "nan" for NaN
Format4(p) ==
    IF p.nan THEN [text |-> "nan", whole |-> 0, frac |-> 0]
    ELSE LET q == (p.v + 5) \div 10
         IN  [text |-> "fixed", whole |-> q \div 10000, frac |-> q % 10000]

Msg(kind) == [kind |-> kind, rank |-> 0, channel |-> <<>>, value |-> Format4(NaN)]

\* f"{i+1}. {channel}: {peak:.4f}"   (line 58), i counted from 1 here
RankLine(i, item) ==
    [kind |-> "rank", rank |-> i, channel |-> item.key, value |-> Format4(item.value)]

IsRank(l) == l.kind = "rank"

ReportLines(out) == SelectSeq(out, IsRank)

\* ------------------------------------------------------ time axis
\* A binary float is [m, k], the number m / 2^k, with m = 0 or
\* 2^(MantBits-1) <= m < 2^MantBits.
FlZero == [m |-> 0, k |-> 0]

RECURSIVE FlExp(_, _, _)
FlExp(num, den, k) ==
    IF num * Pow2(k) >= den * Pow2(MantBits - 1) THEN k ELSE FlExp(num, den, k + 1)

\* a mantissa that rounding carried up to 2^MantBits is renormalised
FlPack(m, k) ==
    IF m = Pow2(MantBits) THEN [m |-> Pow2(MantBits - 1), k |-> k - 1]
    ELSE [m |-> m, k |-> k]

\* n / den rounded to an integer, to nearest, ties to even
RoundDiv(n, den) ==
    IF 2 * (n % den) > den \/ (2 * (n % den) = den /\ (n \div den) % 2 = 1)
    THEN (n \div den) + 1
    ELSE n \div den

FlDivAt(num, den, k) == FlPack(RoundDiv(num * Pow2(k), den), k)

\* num / den (0 <= num < den) rounded to nearest, ties to even
FlDiv(num, den) ==
    IF num = 0 THEN FlZero ELSE FlDivAt(num, den, FlExp(num, den, 0))

\* np.arange(n): 0, 1, ..., n-1
Arange(n) == [i \in 1..n |-> i - 1]

TimeAxis_from1(n, rate) == [i \in 1..n |-> FlDiv(i, rate)]

\* np.arange(num_samples) / SAMPLE_RATE   (line 62)
TimeAxis(n, rate) == [i \in 1..n |-> FlDiv(Arange(n)[i], rate)]

\* ------------------------------------------------------ figures
NoFigure == [created |-> FALSE, axes |-> <<>>, squeezed |-> FALSE, done |-> FALSE]

NewAxes == [lines |-> <<>>, ylabel |-> <<>>, xlabel |-> "", grid |-> FALSE,
            legend |-> FALSE]

\* plt.subplots(n, 1): n axes; with squeeze left at its default a single
\* Axes object, not an array, is returned when n = 1
Subplots(n) ==
    [created |-> TRUE, axes |-> [i \in 1..n |-> NewAxes], squeezed |-> (n = 1),
     done |-> FALSE]

\* ax.plot(x, y, label=...)
PlotLine(ax, x, y, label) ==
    [ax EXCEPT !.lines = Append(@, [x |-> x, y |-> y, label |-> label])]

LoopDone_early(i, n) == i >= n

\* a for loop over n items has run out when its counter passes n
LoopDone(i, n) == i > n

\* ------------------------------------------------------ the run
Files ==
    {MissingFile, MalformedFile}
        \cup CsvFiles(MaxChannels, MaxSamples, Samples)
        \cup CsvFiles(2, MaxAxisSamples, {12346})

NoPrev == [peaks |-> <<>>, sorted |-> <<>>, report |-> <<>>, axis |-> <<>>, rate |-> 0]

Init ==
    /\ file \in Files
    /\ SAMPLE_RATE = 48000
    /\ pc = "start"
    /\ outcome = "none"
    /\ df = NoTable
    /\ num_channels = 0
    /\ num_samples = 0
    /\ peak_amplitudes = <<>>
    /\ sorted_peaks = <<>>
    /\ time_axis = <<>>
    /\ idx = 0
    /\ stdout = <<>>
    /\ fig1 = NoFigure
    /\ fig2 = NoFigure
    /\ shown = FALSE
    /\ runs = 1
    /\ prev = NoPrev

\* lines 33-42: pd.read_csv inside try/except
ReadFile ==
    /\ pc = "start"
    /\ LET o == ReadOutcome(file)
       IN  /\ outcome' = o
           /\ df' = IF o = "Ok" THEN ReadCsv(file) ELSE df
           /\ stdout' = stdout \o <<Msg("reading")>> \o
                   (IF o = "NotFound" THEN <<Msg("notfound"), Msg("hint")>>
                    ELSE IF o = "ReadError" THEN <<Msg("readerror")>>
                    ELSE <<>>)
           /\ pc' = IF ReturnsEarly(o) THEN "done" ELSE "measure"
    /\ UNCHANGED <<file, SAMPLE_RATE, num_channels, num_samples, peak_amplitudes,
                   sorted_peaks, time_axis, idx, fig1, fig2, shown, runs, prev>>

\* lines 44-49
Measure ==
    /\ pc = "measure"
    /\ num_channels' = Len(df.columns)
    /\ num_samples' = DfLen(df)
    /\ stdout' = Append(stdout, Msg("header"))
    /\ peak_amplitudes' = <<>>
    /\ idx' = 1
    /\ pc' = "peaks"
    /\ UNCHANGED <<file, SAMPLE_RATE, outcome, df, sorted_peaks, time_axis, fig1,
                   fig2, shown, runs, prev>>

\* lines 50-52, one iteration
PeakStep ==
    /\ pc = "peaks"
    /\ ~LoopDone(idx, Len(df.columns))
    /\ peak_amplitudes' =
           DictSet(peak_amplitudes, df.columns[idx], PeakOf(df, df.columns[idx]))
    /\ idx' = idx + 1
    /\ UNCHANGED <<file, SAMPLE_RATE, pc, outcome, df, num_channels, num_samples,
                   sorted_peaks, time_axis, stdout, fig1, fig2, shown, runs, prev>>

\* line 55
SortPeaks ==
    /\ pc = "peaks"
    /\ LoopDone(idx, Len(df.columns))
    /\ sorted_peaks' = Sorted(peak_amplitudes)
    /\ idx' = 1
    /\ pc' = "report"
    /\ UNCHANGED <<file, SAMPLE_RATE, outcome, df, num_channels, num_samples,
                   peak_amplitudes, time_axis, stdout, fig1, fig2, shown, runs, prev>>

\* lines 57-58, one iteration
PrintRank ==
    /\ pc = "report"
    /\ ~LoopDone(idx, Len(sorted_peaks))
    /\ stdout' = Append(stdout, RankLine(idx, sorted_peaks[idx]))
    /\ idx' = idx + 1
    /\ UNCHANGED <<file, SAMPLE_RATE, pc, outcome, df, num_channels, num_samples,
                   peak_amplitudes, sorted_peaks, time_axis, fig1, fig2, shown,
                   runs, prev>>

\* lines 62-64
MakeTimeAxis ==
    /\ pc = "report"
    /\ LoopDone(idx, Len(sorted_peaks))
    /\ time_axis' = TimeAxis(num_samples, SAMPLE_RATE)
    /\ stdout' = Append(stdout, Msg("generating"))
    /\ pc' = "fig1"
    /\ UNCHANGED <<file, SAMPLE_RATE, outcome, df, num_channels, num_samples,
                   peak_amplitudes, sorted_peaks, idx, fig1, fig2, shown, runs, prev>>

\* lines 67-68
CreateFig1 ==
    /\ pc = "fig1"
    /\ fig1' = Subplots(num_channels)
    /\ idx' = 1
    /\ pc' = "fig1_loop"
    /\ UNCHANGED <<file, SAMPLE_RATE, outcome, df, num_channels, num_samples,
                   peak_amplitudes, sorted_peaks, time_axis, stdout, fig2, shown,
                   runs, prev>>

\* lines 69-73, one iteration; axes[i] on a single Axes object raises
\* TypeError, which nothing catches
Fig1Channel ==
    /\ pc = "fig1_loop"
    /\ ~LoopDone(idx, Len(df.columns))
    /\ IF fig1.squeezed
       THEN /\ pc' = "crashed"
            /\ UNCHANGED <<fig1, idx>>
       ELSE /\ fig1' = [fig1 EXCEPT !.axes[idx] =
                    [PlotLine(@, time_axis, Column(df, df.columns[idx]), <<>>)
                        EXCEPT !.ylabel = StrReplace(df.columns[idx], "_", " "),
                               !.grid = TRUE]]
            /\ idx' = idx + 1
            /\ pc' = pc
    /\ UNCHANGED <<file, SAMPLE_RATE, outcome, df, num_channels, num_samples,
                   peak_amplitudes, sorted_peaks, time_axis, stdout, fig2, shown,
                   runs, prev>>

\* lines 74-75
Fig1Finish ==
    /\ pc = "fig1_loop"
    /\ LoopDone(idx, Len(df.columns))
    /\ IF fig1.squeezed \/ Len(fig1.axes) = 0
       THEN /\ pc' = "crashed"
            /\ UNCHANGED fig1
       ELSE /\ fig1' = [fig1 EXCEPT !.axes[Len(fig1.axes)].xlabel = "Time (seconds)",
                                    !.done = TRUE]
            /\ pc' = "fig2"
    /\ UNCHANGED <<file, SAMPLE_RATE, outcome, df, num_channels, num_samples,
                   peak_amplitudes, sorted_peaks, time_axis, idx, stdout, fig2,
                   shown, runs, prev>>

\* lines 78-79: plt.subplots() without a grid returns one Axes, used as such
CreateFig2 ==
    /\ pc = "fig2"
    /\ fig2' = [created |-> TRUE, axes |-> <<NewAxes>>, squeezed |-> TRUE,
                done |-> FALSE]
    /\ idx' = 1
    /\ pc' = "fig2_loop"
    /\ UNCHANGED <<file, SAMPLE_RATE, outcome, df, num_channels, num_samples,
                   peak_amplitudes, sorted_peaks, time_axis, stdout, fig1, shown,
                   runs, prev>>

\* lines 80-81, one iteration
Fig2Channel ==
    /\ pc = "fig2_loop"
    /\ ~LoopDone(idx, Len(df.columns))
    /\ fig2' = [fig2 EXCEPT !.axes[1] =
           PlotLine(@, time_axis, Column(df, df.columns[idx]), df.columns[idx])]
    /\ idx' = idx + 1
    /\ UNCHANGED <<file, SAMPLE_RATE, pc, outcome, df, num_channels, num_samples,
                   peak_amplitudes, sorted_peaks, time_axis, stdout, fig1, shown,
                   runs, prev>>

\* lines 83-87
Fig2Finish ==
    /\ pc = "fig2_loop"
    /\ LoopDone(idx, Len(df.columns))
    /\ fig2' = [fig2 EXCEPT !.axes[1] =
           [@ EXCEPT !.xlabel = "Time (seconds)", !.ylabel = <<"Amplitude">>,
                     !.grid = TRUE, !.legend = TRUE],
                            !.done = TRUE]
    /\ pc' = "help"
    /\ UNCHANGED <<file, SAMPLE_RATE, outcome, df, num_channels, num_samples,
                   peak_amplitudes, sorted_peaks, time_axis, idx, stdout, fig1,
                   shown, runs, prev>>

\* lines 89-93
PrintHelp ==
    /\ pc = "help"
    /\ stdout' = stdout \o <<Msg("help"), Msg("help"), Msg("help"), Msg("help")>>
    /\ pc' = "show"
    /\ UNCHANGED <<file, SAMPLE_RATE, outcome, df, num_channels, num_samples,
                   peak_amplitudes, sorted_peaks, time_axis, idx, fig1, fig2,
                   shown, runs, prev>>

\* line 95: plt.show() opens the windows and blocks
Show ==
    /\ pc = "show"
    /\ shown' = TRUE
    /\ pc' = "blocked"
    /\ UNCHANGED <<file, SAMPLE_RATE, outcome, df, num_channels, num_samples,
                   peak_amplitudes, sorted_peaks, time_axis, idx, stdout, fig1,
                   fig2, runs, prev>>

\* line 95: the user closes the windows, plt.show() returns, the function ends
CloseWindows ==
    /\ pc = "blocked"
    /\ pc' = "done"
    /\ UNCHANGED <<file, SAMPLE_RATE, outcome, df, num_channels, num_samples,
                   peak_amplitudes, sorted_peaks, time_axis, idx, stdout, fig1,
                   fig2, shown, runs, prev>>

\* lines 97-98 with line 29 edited: the script is run again on the same file
\* with another SAMPLE_RATE; prev keeps what the finished run produced
Rerun ==
    /\ pc \in {"done", "crashed"}
    /\ runs < MaxRuns
    /\ prev' = [peaks |-> peak_amplitudes, sorted |-> sorted_peaks,
                report |-> ReportLines(stdout), axis |-> time_axis,
                rate |-> SAMPLE_RATE]
    /\ SAMPLE_RATE' \in SampleRates \ {SAMPLE_RATE}
    /\ runs' = runs + 1
    /\ pc' = "start"
    /\ outcome' = "none"
    /\ df' = NoTable
    /\ num_channels' = 0
    /\ num_samples' = 0
    /\ peak_amplitudes' = <<>>
    /\ sorted_peaks' = <<>>
    /\ time_axis' = <<>>
    /\ idx' = 0
    /\ stdout' = <<>>
    /\ fig1' = NoFigure
    /\ fig2' = NoFigure
    /\ shown' = FALSE
    /\ UNCHANGED file

Next ==
    \/ ReadFile
    \/ Measure
    \/ PeakStep
    \/ SortPeaks
    \/ PrintRank
    \/ MakeTimeAxis
    \/ CreateFig1
    \/ Fig1Channel
    \/ Fig1Finish
    \/ CreateFig2
    \/ Fig2Channel
    \/ Fig2Finish
    \/ PrintHelp
    \/ Show
    \/ CloseWindows
    \/ Rerun

Spec == Init /\ [][Next]_vars

\* ------------------------------------------------------ properties
Loaded == outcome = "Ok"

AfterPeaks == Loaded /\ pc \notin {"start", "measure", "peaks"}

AfterReport == AfterPeaks /\ pc # "report"

Terminated == pc \in {"done", "crashed"}

Printed(kind) == \E i \in 1..Len(stdout) : stdout[i].kind = kind

HeaderOnly == file.exists /\ file.parses /\ Len(file.rows) = 0

\* v is the largest absolute value among the samples of col
IsMaxAbs(v, col) ==
    /\ \E i \in 1..Len(col) : Abs(col[i]) = v
    /\ \A i \in 1..Len(col) : Abs(col[i]) <= v

\* position of a channel name in the table's column order
ColumnOrder(name) == CHOOSE i \in 1..Len(df.columns) : df.columns[i] = name

\* C1: once the peak loop has run over a loaded table with N channels, the
\* peak amplitude map has exactly N entries, one per column name, every
\* value is >= 0 and equals the maximum absolute sample of its column.
C1_PeakMap ==
    AfterPeaks =>
        /\ Len(peak_amplitudes) = Len(df.columns)
        /\ \A i \in 1..Len(peak_amplitudes) :
              /\ peak_amplitudes[i].key = df.columns[i]
              /\ FloatGe(peak_amplitudes[i].value, Float(0))
              /\ IsMaxAbs(peak_amplitudes[i].value.v, df.data[i])

\* C2: the ranked list is ordered by peak value descending: each value is
\* >= the next one, and of two channels with equal peaks the one earlier in
\* column order comes first.
C2_RankedOrder ==
    AfterPeaks =>
        /\ \A i \in 1..(Len(sorted_peaks) - 1) :
              FloatGe(sorted_peaks[i].value, sorted_peaks[i + 1].value)
        /\ \A i, j \in 1..Len(sorted_peaks) :
              (i < j /\ FloatEq(sorted_peaks[i].value, sorted_peaks[j].value))
                  => ColumnOrder(sorted_peaks[i].key) < ColumnOrder(sorted_peaks[j].key)

\* C3: when the input file does not exist the run prints the not-found
\* message and not the read-failure message, returns normally, and no
\* figure is created or displayed.
C3_NotFound ==
    (~file.exists /\ pc # "start") =>
        /\ outcome = "NotFound"
        /\ Printed("notfound")
        /\ ~Printed("readerror")
        /\ pc = "done"
        /\ ~fig1.created /\ ~fig2.created /\ ~shown

C3_Witness == ~file.exists /\ pc = "done" /\ Printed("notfound")

\* C4: when the file exists but reading it fails, the failure is caught, a
\* message is printed and the run returns normally with no line of the
\* ranked report printed and no figure created.
C4_ReadFailure ==
    (file.exists /\ ~file.parses /\ pc # "start") =>
        /\ outcome = "ReadError"
        /\ Printed("readerror")
        /\ pc = "done"
        /\ ReportLines(stdout) = <<>>
        /\ ~Printed("header")
        /\ ~fig1.created /\ ~fig2.created /\ ~shown

C4_Witness == file.exists /\ ~file.parses /\ pc = "done" /\ Printed("readerror")

Max2(a, b) == IF a > b THEN a ELSE b

RECURSIVE FlShift(_, _)
FlShift(n, s) == IF n \div Pow2(s) < Pow2(MantBits) THEN s ELSE FlShift(n, s + 1)

\* n / 2^k (n >= 0) as a float: scaled up exactly, or shifted down by s
\* bits and rounded to nearest, ties to even
FlNormAt(n, k, s) == FlPack(RoundDiv(n, Pow2(s)), k - s)

RECURSIVE FlNorm(_, _)
FlNorm(n, k) ==
    IF n = 0 THEN FlZero
    ELSE IF n < Pow2(MantBits - 1) THEN FlNorm(2 * n, k + 1)
    ELSE IF n < Pow2(MantBits) THEN [m |-> n, k |-> k]
    ELSE FlNormAt(n, k, FlShift(n, 1))

\* the float subtraction b - a for 0 <= a <= b
FlSubAt(b, a, K) == FlNorm(b.m * Pow2(K - b.k) - a.m * Pow2(K - a.k), K)

FlSub(b, a) == FlSubAt(b, a, Max2(a.k, b.k))

\* |x - y| <= n units in the last place of ref
WithinUlpsAt(x, y, n, ref, E) ==
    Abs(x.m * Pow2(E - x.k) - y.m * Pow2(E - y.k)) <= n * Pow2(E - ref.k)

WithinUlps(x, y, n, ref) == WithinUlpsAt(x, y, n, ref, Max2(Max2(x.k, y.k), ref.k))

\* C5 as stated: the time axis has M entries, starts at 0, and every two
\* consecutive entries differ by exactly 1/SAMPLE_RATE.
C5_ExactSteps ==
    AfterReport =>
        /\ Len(time_axis) = DfLen(df)
        /\ (Len(time_axis) >= 1 => time_axis[1] = FlZero)
        /\ \A i \in 1..(Len(time_axis) - 1) :
              FlSub(time_axis[i + 1], time_axis[i]) = FlDiv(1, SAMPLE_RATE)

\* C5 amended: the time axis has M entries, starts at 0, element i is
\* i/SAMPLE_RATE rounded to the nearest float, and every two consecutive
\* entries differ by 1/SAMPLE_RATE to within two units in the last place of
\* the later entry.
C5_TimeAxis ==
    AfterReport =>
        /\ Len(time_axis) = DfLen(df)
        /\ (Len(time_axis) >= 1 => time_axis[1] = FlZero)
        /\ \A i \in 1..Len(time_axis) : time_axis[i] = FlDiv(i - 1, SAMPLE_RATE)
        /\ \A i \in 1..(Len(time_axis) - 1) :
              WithinUlps(FlSub(time_axis[i + 1], time_axis[i]),
                         FlDiv(1, SAMPLE_RATE), 2, time_axis[i + 1])

C5_Witness ==
    /\ AfterReport
    /\ Len(time_axis) >= 4
    /\ \E i \in 1..(Len(time_axis) - 1) :
          FlSub(time_axis[i + 1], time_axis[i]) # FlDiv(1, SAMPLE_RATE)

\* C6: the report has exactly one line per channel, in ranked-list order,
\* each channel once, ranks 1..N, each value in fixed 4-decimal format.
C6_Report ==
    AfterReport =>
        LET r == ReportLines(stdout)
        IN  /\ Len(r) = Len(df.columns)
            /\ \A i \in 1..Len(r) :
                  /\ r[i].rank = i
                  /\ r[i].channel = sorted_peaks[i].key
                  /\ r[i].value.text = "fixed"
                  /\ r[i].value.frac \in 0..9999
            /\ \A c \in Range(df.columns) :
                  Cardinality({i \in 1..Len(r) : r[i].channel = c}) = 1

\* C7: for a header-only file the load succeeds, every empty channel gets
\* its peak by one and the same policy, and the run does not stop with an
\* error on its way to the display call.
C7_HeaderOnly ==
    (HeaderOnly /\ pc # "start") =>
        /\ Loaded
        /\ DfLen(df) = 0
        /\ \A i, j \in 1..Len(peak_amplitudes) :
              peak_amplitudes[i].value = peak_amplitudes[j].value
        /\ pc # "crashed"

\* C8: a second run over the same file that differs only in SAMPLE_RATE ends
\* with the same peak amplitude map, ranked list and report lines.
C8_RateIndependent ==
    (runs = 2 /\ Terminated) =>
        /\ peak_amplitudes = prev.peaks
        /\ sorted_peaks = prev.sorted
        /\ ReportLines(stdout) = prev.report

C8_Witness ==
    /\ runs = 2
    /\ pc = "done"
    /\ shown
    /\ SAMPLE_RATE # prev.rate
    /\ time_axis # prev.axis
    /\ Len(prev.report) >= 2
    /\ ReportLines(stdout) = prev.report

\* C9: after a successful load the run never stops with an uncaught error,
\* and the finished per-channel figure has one sub-plot per channel, each
\* labeled with its channel name, the x-axis label on the last one only.
C9_NoCrash ==
    Loaded =>
        /\ pc # "crashed"
        /\ fig1.done =>
              /\ Len(fig1.axes) = Len(df.columns)
              /\ \A i \in 1..Len(fig1.axes) :
                    /\ fig1.axes[i].ylabel = StrReplace(df.columns[i], "_", " ")
                    /\ (fig1.axes[i].xlabel # "") <=> (i = Len(fig1.axes))

AllLines(fig) == UNION {Range(fig.axes[i].lines) : i \in 1..Len(fig.axes)}

StageOrder ==
    /\ (Len(peak_amplitudes) > 0 \/ pc = "peaks") => Loaded
    /\ Len(ReportLines(stdout)) > 0 =>
          /\ Len(peak_amplitudes) = Len(df.columns)
          /\ Len(sorted_peaks) = Len(df.columns)
    /\ (fig1.created \/ fig2.created) =>
          /\ Loaded
          /\ Len(ReportLines(stdout)) = Len(df.columns)
    /\ fig2.created => fig1.done
    /\ shown =>
          /\ fig1.done /\ fig2.done
          /\ \A i \in 1..Len(fig1.axes) : Len(fig1.axes[i].lines) = 1
          /\ Len(fig1.axes) = Len(df.columns)
          /\ Len(fig2.axes[1].lines) = Len(df.columns)
          /\ \A l \in AllLines(fig1) \cup AllLines(fig2) : l.x = time_axis
          /\ pc \in {"blocked", "done"}
    /\ pc = "blocked" => shown

ShowIsLast ==
    (shown /\ runs' = runs) =>
        UNCHANGED <<stdout, fig1, fig2, peak_amplitudes, sorted_peaks, time_axis, df>>

\* C10: the stages run in the order load, analyze, report, plot: every
\* report line is printed before a figure is created, both figures are
\* complete and drawn over the one time axis before the display call, and
\* nothing happens after the display call, the only place the run waits.
C10_StageOrder == [](StageOrder) /\ [][ShowIsLast]_vars

C10_Witness ==
    /\ pc = "done"
    /\ shown
    /\ Len(df.columns) >= 2
    /\ Len(ReportLines(stdout)) = Len(df.columns)
    /\ fig1.done /\ fig2.done
====
